---- MODULE Spec2Model ----
(***************************************************************************)
(* A model of LocalFlaskChat/app.py: the data/ tree of per-(uuid, model)   *)
(* CSV tables and the HTTP handlers that create, read, rewrite and delete  *)
(* them.                                                                   *)
(*                                                                         *)
(* A path is the sequence of its components.  A CSV file is the sequence   *)
(* of its lines, each line the sequence of its fields; the first line is   *)
(* the header.  Both writers of the program (csv.writer, csv.DictWriter)   *)
(* use the default dialect, so equal field sequences are equal files.      *)
(* Every file the model holds is rectangular (each line has as many fields *)
(* as the header).                                                         *)
(*                                                                         *)
(* A request's uuid is the sequence of the "/"-separated segments of the   *)
(* uuid string: "s1" is <<"s1">>, "./s1" is <<".", "s1">>, and the missing *)
(* (or empty) uuid is <<>>.  Every other request field is a string, ""     *)
(* when missing.                                                           *)
(***************************************************************************)
EXTENDS Integers, Sequences, FiniteSets, TLC

VARIABLES
    dirs,        \* the directories that exist
    files,       \* path -> content of each CSV file that exists
    resp,        \* the response to the last request served
    cleared,     \* history: the <<uuid, model>> requests /clear covered and no
                 \* generation request has named since
    overridden,  \* history: the judgement paths a successful /override_label
                 \* has relabelled a row of
    pc,          \* per in-flight request: the step it is at
    req,         \* per in-flight request: the request
    rows,        \* per in-flight request: the rows it holds in memory
    initial      \* history: the judgement table the in-flight requests found

vars == <<dirs, files, resp, cleared, overridden, pc, req, rows, initial>>

fs == <<dirs, files>>

(***************************************************************************)
(* Bounds                                                                  *)
(***************************************************************************)
\* random.choice is drawn freely for the first MaxDraws - 1 rows of a
\* judgement table; the rows after them all take the last draw
MaxDraws == 1

\* the rows of a judgement table that is on disk when the service starts
MaxRows == 2

(***************************************************************************)
(* Constants of the program                                                *)
(***************************************************************************)
DATA_DIR == <<"data">>

MODEL_NAMES ==
    << "qwen_CoT_video_image_info", "qwen_CoT_video_image_raw",
       "qwen_CoT_description_info", "qwen_video_image_info",
       "qwen_video_image_raw", "qwen_description_info",
       "smol_CoT_video_image_info", "smol_CoT_video_image_raw",
       "smol_CoT_description_info", "smol_video_image_info",
       "smol_video_image_raw", "smol_description_info" >>

ModelNameSet == { MODEL_NAMES[i] : i \in DOMAIN MODEL_NAMES }

num_items == 50

labels == <<"Yes", "N/A", "No">>

LabelSet == { labels[i] : i \in DOMAIN labels }

categories == <<"Electronics", "Clothing", "Home & Garden", "Sports", "Books">>

brands == <<"BrandA", "BrandB", "BrandC", "BrandD", "BrandE">>

CsvTypes == {"video_description", "product_info", "judgement"}

(***************************************************************************)
(* Paths                                                                   *)
(***************************************************************************)
\* pathlib's "/" : the segments appended, "." and empty segments dropped
JoinPath(base, segments) ==
    base \o SelectSeq(segments, LAMBDA c : c # "." /\ c # "")

get_model_dir(uuid_str, model_name) ==
    JoinPath(JoinPath(DATA_DIR, uuid_str), <<model_name>>)

get_csv_path(uuid_str, model_name, csv_type) ==
    JoinPath(get_model_dir(uuid_str, model_name), <<csv_type \o ".csv">>)

IsPrefix(p, q) == Len(p) <= Len(q) /\ SubSeq(q, 1, Len(p)) = p

\* the path and every ancestor of it (mkdir(parents=True, exist_ok=True))
WithParents(p) == { SubSeq(p, 1, k) : k \in 1..Len(p) }

Parent(p) == SubSeq(p, 1, Len(p) - 1)

Exists(p) == p \in dirs \/ p \in DOMAIN files

\* the file map with `content` written at `path` (open(path, 'w') ... close)
WriteFile(fm, path, content) ==
    [p \in DOMAIN fm \cup {path} |-> IF p = path THEN content ELSE fm[p]]

\* the file map without the files under directory d (shutil.rmtree)
RemoveTree(fm, d) ==
    [p \in { q \in DOMAIN fm : ~IsPrefix(d, q) } |-> fm[p]]

(***************************************************************************)
(* create_sample_csv: the three generated tables                           *)
(***************************************************************************)
\* f'{i:04d}'
Pad4(i) ==
    IF i < 10 THEN "000" \o ToString(i)
    ELSE IF i < 100 THEN "00" \o ToString(i)
    ELSE IF i < 1000 THEN "0" \o ToString(i)
    ELSE ToString(i)

ProductId(i) == "P" \o Pad4(i)

VideoDescriptionHeader ==
    <<"product_id", "description_key1", "description_key2", "description_key3">>

VideoDescriptionRow(i) ==
    << ProductId(i),
       "Video shows product features " \o ToString(i),
       "Duration: " \o ToString(30 + (i % 60)) \o " seconds",
       "Quality: " \o (IF i % 3 = 0 THEN "HD" ELSE "Standard") >>

ProductInfoHeader == <<"product_id", "brand", "price", "spec", "category">>

ProductInfoRow(i) ==
    << ProductId(i),
       brands[(i % Len(brands)) + 1],
       "$" \o ToString(((i * 10) % 500) + 20),
       "Model-" \o ToString(i) \o "-XL",
       categories[(i % Len(categories)) + 1] >>

JudgementHeader ==
    <<"product_id", "product_name", "category", "video_url", "thumbnail_url",
      "ground_truth_image_url", "label", "reason">>

\* the reasons dictionary of row i
Reason(label, i) ==
    CASE label = "Yes" -> "Product clearly matches criteria " \o ToString(i)
      [] label = "N/A" ->
            "Product information insufficient for determination " \o ToString(i)
      [] label = "No" ->
            "Product does not meet the required standards " \o ToString(i)

JudgementRow(i, label) ==
    << ProductId(i),
       "Sample Product " \o ToString(i),
       categories[(i % Len(categories)) + 1],
       "http://example.com/video" \o ToString(i) \o ".mp4",
       "http://example.com/thumb" \o ToString(i) \o ".jpg",
       "http://example.com/gt" \o ToString(i) \o ".jpg",
       label,
       Reason(label, i) >>

\* The outcomes of the num_items calls of random.choice(labels) that the model
\* covers: draw[k] is the index chosen for row k, the last draw serving every
\* later row.
RandomDraws == [1..MaxDraws -> DOMAIN labels]

DrawnLabel(draw, i) == labels[draw[IF i < MaxDraws THEN i ELSE MaxDraws]]

VideoDescriptionCsv ==
    <<VideoDescriptionHeader>> \o [i \in 1..num_items |-> VideoDescriptionRow(i)]

ProductInfoCsv ==
    <<ProductInfoHeader>> \o [i \in 1..num_items |-> ProductInfoRow(i)]

JudgementCsv ==
    [draw \in RandomDraws |->
        <<JudgementHeader>>
            \o [i \in 1..num_items |-> JudgementRow(i, DrawnLabel(draw, i))]]

\* random is imported and drawn from for a judgement table only
DrawsFor(csv_type) ==
    IF csv_type = "judgement" THEN RandomDraws ELSE {[k \in 1..MaxDraws |-> 1]}

\* what create_sample_csv writes for csv_type under the given draw
SampleCsv(csv_type, draw) ==
    CASE csv_type = "video_description" -> VideoDescriptionCsv
      [] csv_type = "product_info" -> ProductInfoCsv
      [] csv_type = "judgement" -> JudgementCsv[draw]

\* as create_sample_csv, but a file that exists is kept
create_sample_csv_if_absent(filepath, csv_type, draw) ==
    /\ dirs' = dirs \cup WithParents(Parent(filepath))
    /\ files' = IF filepath \in DOMAIN files THEN files
                ELSE WriteFile(files, filepath, SampleCsv(csv_type, draw))

\* create_sample_csv(filepath, csv_type): the parent directories are made and
\* the file is opened with 'w' and written, whatever was there
create_sample_csv(filepath, csv_type, draw) ==
    /\ dirs' = dirs \cup WithParents(Parent(filepath))
    /\ files' = WriteFile(files, filepath, SampleCsv(csv_type, draw))

(***************************************************************************)
(* csv.DictReader and csv.DictWriter                                       *)
(***************************************************************************)
\* A row dictionary is the sequence of its <<key, value>> pairs, in insertion
\* order (the order of the header).
DictRow(header, line) == [i \in 1..Len(header) |-> <<header[i], line[i]>>]

\* the rows csv.DictReader yields: none for an empty file
DictReader(content) ==
    IF content = <<>> THEN <<>>
    ELSE [k \in 1..(Len(content) - 1) |-> DictRow(content[1], content[k + 1])]

Keys(row) == [i \in 1..Len(row) |-> row[i][1]]

HasKey(row, key) == \E i \in 1..Len(row) : row[i][1] = key

\* row[key]
Get(row, key) == row[CHOOSE i \in 1..Len(row) : row[i][1] = key][2]

\* row[key] = value
SetItem(row, key, value) ==
    IF HasKey(row, key)
    THEN [i \in 1..Len(row) |-> IF row[i][1] = key THEN <<key, value>> ELSE row[i]]
    ELSE Append(row, <<key, value>>)

\* as DictWriter, but writeheader() is not called
DictWriterNoHeader(fieldnames, rs) ==
    [k \in 1..Len(rs) |->
        [i \in 1..Len(fieldnames) |->
            IF HasKey(rs[k], fieldnames[i]) THEN Get(rs[k], fieldnames[i]) ELSE ""]]

\* the lines DictWriter(f, fieldnames).writeheader() and writerows(rs) write
DictWriter(fieldnames, rs) ==
    <<fieldnames>>
        \o [k \in 1..Len(rs) |->
                [i \in 1..Len(fieldnames) |->
                    IF HasKey(rs[k], fieldnames[i])
                    THEN Get(rs[k], fieldnames[i]) ELSE ""]]

\* {k: v for k, v in row.items() if k != 'product_id'}
WithoutProductId(row) ==
    [k \in { row[i][1] : i \in 1..Len(row) } \ {"product_id"} |-> Get(row, k)]

(***************************************************************************)
(* Requests and responses                                                  *)
(***************************************************************************)
\* `not x` for a string field of a request
Missing(x) == x = ""

\* `not uuid_str`
MissingUuid(uuid_str) == uuid_str = <<>>

\* jsonify(body), status code; reads and wrote are the CSV paths the handler
\* opened for reading and for writing
Response(op, code, body, reads, wrote) ==
    [op |-> op, code |-> code, body |-> body, reads |-> reads, wrote |-> wrote]

PostError(op, code, error) ==
    Response(op, code, [ok |-> FALSE, error |-> error], {}, {})

GetError(op, code, error) == Response(op, code, [error |-> error], {}, {})

PostOk(op, reads, wrote) == Response(op, 200, [ok |-> TRUE], reads, wrote)

\* as ValidModel, but any model name given passes
ValidModelAny(model) == model = model

\* model in MODEL_NAMES
ValidModel(model) == model \in ModelNameSet

\* new_label in ['Yes', 'N/A', 'No']
ValidLabel(new_label) == new_label \in {"Yes", "N/A", "No"}

\* isinstance(days_back, int) and days_back >= 1 (0 stands for a missing one)
ValidDaysBack(days_back) == days_back \in Int /\ days_back >= 1

NoRace == UNCHANGED <<pc, req, rows, initial>>

(***************************************************************************)
(* POST /pull_data                                                         *)
(***************************************************************************)
\* ensure_model_dir for every model of MODEL_NAMES
EnsureAllModelDirs(uuid_str) ==
    dirs \cup UNION { WithParents(get_model_dir(uuid_str, MODEL_NAMES[i])) :
                        i \in DOMAIN MODEL_NAMES }

pull_data(uuid_str, days_back) ==
    /\ IF MissingUuid(uuid_str) \/ days_back = 0
       THEN /\ resp' = PostError("pull_data", 400, "Missing uuid or days_back")
            /\ UNCHANGED dirs
       ELSE IF ~ValidDaysBack(days_back)
       THEN /\ resp' = PostError("pull_data", 400,
                                 "days_back must be a positive integer")
            /\ UNCHANGED dirs
       ELSE /\ dirs' = EnsureAllModelDirs(uuid_str)
            /\ resp' = PostOk("pull_data", {}, {})
    /\ UNCHANGED <<files, cleared, overridden>>
    /\ NoRace

(***************************************************************************)
(* POST /make_video_description, /make_product_info, /judge                *)
(***************************************************************************)
\* the handler of a generation endpoint: op is the endpoint, csv_type the table
Generate(op, csv_type, uuid_str, model) ==
    /\ IF MissingUuid(uuid_str) \/ Missing(model)
       THEN /\ resp' = PostError(op, 400, "Missing uuid or model")
            /\ UNCHANGED <<dirs, files, cleared>>
       ELSE IF ~ValidModel(model)
       THEN /\ resp' = PostError(op, 400, "Invalid model name")
            /\ UNCHANGED <<dirs, files, cleared>>
       ELSE /\ \E draw \in DrawsFor(csv_type) :
                    create_sample_csv(get_csv_path(uuid_str, model, csv_type),
                                      csv_type, draw)
            /\ resp' = PostOk(op, {}, {get_csv_path(uuid_str, model, csv_type)})
            /\ cleared' = cleared \ {<<uuid_str, model>>}
    /\ UNCHANGED overridden
    /\ NoRace

make_video_description(uuid_str, model) ==
    Generate("make_video_description", "video_description", uuid_str, model)

make_product_info(uuid_str, model) ==
    Generate("make_product_info", "product_info", uuid_str, model)

judge(uuid_str, model) == Generate("judge", "judgement", uuid_str, model)

(***************************************************************************)
(* GET /status                                                             *)
(***************************************************************************)
StatusOf(path) == IF Exists(path) THEN "complete" ELSE "pending"

StatusBody(uuid_str, model) ==
    [video_description_csv |->
        StatusOf(get_csv_path(uuid_str, model, "video_description")),
     product_info_csv |->
        StatusOf(get_csv_path(uuid_str, model, "product_info")),
     judgement_csv |-> StatusOf(get_csv_path(uuid_str, model, "judgement"))]

StatusResponse(uuid_str, model) ==
    IF MissingUuid(uuid_str) \/ Missing(model)
    THEN GetError("status", 400, "Missing uuid or model")
    ELSE IF ~ValidModel(model)
    THEN GetError("status", 400, "Invalid model name")
    ELSE Response("status", 200, StatusBody(uuid_str, model), {}, {})

get_status(uuid_str, model) ==
    /\ resp' = StatusResponse(uuid_str, model)
    /\ UNCHANGED <<dirs, files, cleared, overridden>>
    /\ NoRace

(***************************************************************************)
(* GET /results                                                            *)
(***************************************************************************)
\* as AllExist, but product_info_path is left out of the list
AllExistButProductInfo(uuid_str, model) ==
    /\ Exists(get_csv_path(uuid_str, model, "video_description"))
    /\ Exists(get_csv_path(uuid_str, model, "judgement"))

\* all([video_desc_path.exists(), product_info_path.exists(),
\*      judgement_path.exists()])
AllExist(uuid_str, model) ==
    /\ Exists(get_csv_path(uuid_str, model, "video_description"))
    /\ Exists(get_csv_path(uuid_str, model, "product_info"))
    /\ Exists(get_csv_path(uuid_str, model, "judgement"))

\* open(path, 'r') succeeds on each of the three tables (a failure is answered
\* with 500 by the handler's except clause)
CanOpenAll(uuid_str, model) ==
    \A csv_type \in CsvTypes : get_csv_path(uuid_str, model, csv_type) \in DOMAIN files

\* as LoadMapping, but a product_id already in the dictionary keeps its entry
RECURSIVE LoadMappingKeepsFirst(_, _)
LoadMappingKeepsFirst(rs, n) ==
    IF n = 0 THEN [k \in {} |-> k]
    ELSE LET before == LoadMappingKeepsFirst(rs, n - 1)
             product_id == Get(rs[n], "product_id")
         IN  [k \in DOMAIN before \cup {product_id} |->
                 IF k \in DOMAIN before THEN before[k] ELSE WithoutProductId(rs[n])]

\* The dictionary product_id -> fields that the loop over a side table builds
\* from its first n rows: a later row of the same product_id replaces the entry.
RECURSIVE LoadMapping(_, _)
LoadMapping(rs, n) ==
    IF n = 0 THEN [k \in {} |-> k]
    ELSE LET before == LoadMapping(rs, n - 1)
             product_id == Get(rs[n], "product_id")
         IN  [k \in DOMAIN before \cup {product_id} |->
                 IF k = product_id THEN WithoutProductId(rs[n]) ELSE before[k]]

\* mapping.get(product_id, {})
GetOrEmpty(mapping, product_id) ==
    IF product_id \in DOMAIN mapping THEN mapping[product_id] ELSE [k \in {} |-> k]

\* the item built from one judgement row
Item(row, video_descriptions, product_infos) ==
    [product_id |-> Get(row, "product_id"),
     product_name |-> Get(row, "product_name"),
     category |-> Get(row, "category"),
     video_url |-> Get(row, "video_url"),
     thumbnail_url |-> Get(row, "thumbnail_url"),
     ground_truth_image_url |-> Get(row, "ground_truth_image_url"),
     label |-> Get(row, "label"),
     reason |-> Get(row, "reason"),
     video_description |-> GetOrEmpty(video_descriptions, Get(row, "product_id")),
     product_info |-> GetOrEmpty(product_infos, Get(row, "product_id"))]

\* as LabelCounts, but a label outside the keys is counted under 'No'
RECURSIVE LabelCountsUnknownAsNo(_, _)
LabelCountsUnknownAsNo(rs, n) ==
    IF n = 0 THEN [l \in {"Yes", "N/A", "No"} |-> 0]
    ELSE LET before == LabelCountsUnknownAsNo(rs, n - 1)
             label == Get(rs[n], "label")
         IN  IF label \in DOMAIN before
             THEN [before EXCEPT ![label] = @ + 1]
             ELSE [before EXCEPT !["No"] = @ + 1]

\* label_counts after the first n judgement rows
RECURSIVE LabelCounts(_, _)
LabelCounts(rs, n) ==
    IF n = 0 THEN [l \in {"Yes", "N/A", "No"} |-> 0]
    ELSE LET before == LabelCounts(rs, n - 1)
             label == Get(rs[n], "label")
         IN  IF label \in DOMAIN before
             THEN [before EXCEPT ![label] = @ + 1]
             ELSE before

\* a row lookup of the handler raises KeyError (answered with 500)
ResultsKeyError(vd, pi, jd) ==
    \/ \E k \in 1..Len(vd) : ~HasKey(vd[k], "product_id")
    \/ \E k \in 1..Len(pi) : ~HasKey(pi[k], "product_id")
    \/ \E k \in 1..Len(jd) : \E key \in { JudgementHeader[i] : i \in 1..8 } :
            ~HasKey(jd[k], key)

\* the body of a successful /results
ResultsBody(vd, pi, jd) ==
    LET video_descriptions == LoadMapping(vd, Len(vd))
        product_infos == LoadMapping(pi, Len(pi))
    IN  [counts |-> LabelCounts(jd, Len(jd)),
         items |-> [k \in 1..Len(jd) |->
                        Item(jd[k], video_descriptions, product_infos)]]

ResultsResponse(uuid_str, model) ==
    IF MissingUuid(uuid_str) \/ Missing(model)
    THEN GetError("results", 400, "Missing uuid or model")
    ELSE IF ~ValidModel(model)
    THEN GetError("results", 400, "Invalid model name")
    ELSE IF ~AllExist(uuid_str, model)
    THEN GetError("results", 400, "Not all required CSV files exist")
    ELSE IF ~CanOpenAll(uuid_str, model)
    THEN GetError("results", 500, "FileNotFoundError")
    ELSE LET video_desc_path == get_csv_path(uuid_str, model, "video_description")
             product_info_path == get_csv_path(uuid_str, model, "product_info")
             judgement_path == get_csv_path(uuid_str, model, "judgement")
             vd == DictReader(files[video_desc_path])
             pi == DictReader(files[product_info_path])
             jd == DictReader(files[judgement_path])
         IN  IF ResultsKeyError(vd, pi, jd)
             THEN GetError("results", 500, "KeyError")
             ELSE Response("results", 200, ResultsBody(vd, pi, jd),
                           {video_desc_path, product_info_path, judgement_path}, {})

get_results(uuid_str, model) ==
    /\ resp' = ResultsResponse(uuid_str, model)
    /\ UNCHANGED <<dirs, files, cleared, overridden>>
    /\ NoRace

(***************************************************************************)
(* POST /override_label                                                    *)
(***************************************************************************)
\* as Relabel, but the loop stops relabelling after the first matching row
RelabelFirstMatch(rs, product_id, new_label) ==
    [k \in 1..Len(rs) |->
        IF /\ Get(rs[k], "product_id") = product_id
           /\ \A j \in 1..(k - 1) : Get(rs[j], "product_id") # product_id
        THEN SetItem(rs[k], "label", new_label)
        ELSE rs[k]]

\* the loop over the reader: the rows, the matching ones relabelled
Relabel(rs, product_id, new_label) ==
    [k \in 1..Len(rs) |->
        IF Get(rs[k], "product_id") = product_id
        THEN SetItem(rs[k], "label", new_label)
        ELSE rs[k]]

\* as WriteBack, but the file is opened with 'w' before rows is tested
WriteBackOpensFirst(fm, judgement_path, rs) ==
    WriteFile(fm, judgement_path,
              IF rs # <<>> THEN DictWriter(Keys(rs[1]), rs) ELSE <<>>)

\* `if rows:` and the rewrite of the whole file from the rows in memory
WriteBack(fm, judgement_path, rs) ==
    IF rs # <<>>
    THEN WriteFile(fm, judgement_path, DictWriter(Keys(rs[1]), rs))
    ELSE fm

\* the paths the write-back opens with 'w'
WrittenBack(judgement_path, rs) == IF rs # <<>> THEN {judgement_path} ELSE {}

Matches(rs, product_id) ==
    \E k \in 1..Len(rs) : Get(rs[k], "product_id") = product_id

override_label(uuid_str, model, product_id, new_label) ==
    LET judgement_path == get_csv_path(uuid_str, model, "judgement") IN
    /\ IF MissingUuid(uuid_str) \/ Missing(model) \/ Missing(product_id)
            \/ Missing(new_label)
       THEN /\ resp' = PostError("override_label", 400,
                                 "Missing required parameters")
            /\ UNCHANGED <<files, overridden>>
       ELSE IF ~ValidModel(model)
       THEN /\ resp' = PostError("override_label", 400, "Invalid model name")
            /\ UNCHANGED <<files, overridden>>
       ELSE IF ~ValidLabel(new_label)
       THEN /\ resp' = PostError("override_label", 400, "Invalid label")
            /\ UNCHANGED <<files, overridden>>
       ELSE IF ~Exists(judgement_path)
       THEN /\ resp' = PostError("override_label", 400, "Judgement CSV not found")
            /\ UNCHANGED <<files, overridden>>
       ELSE IF judgement_path \notin DOMAIN files
       THEN /\ resp' = PostError("override_label", 500, "FileNotFoundError")
            /\ UNCHANGED <<files, overridden>>
       ELSE LET rs == DictReader(files[judgement_path]) IN
            IF \E k \in 1..Len(rs) : ~HasKey(rs[k], "product_id")
            THEN /\ resp' = PostError("override_label", 500, "KeyError")
                 /\ UNCHANGED <<files, overridden>>
            ELSE /\ files' = WriteBack(files, judgement_path,
                                       Relabel(rs, product_id, new_label))
                 /\ resp' = PostOk("override_label", {judgement_path},
                                   WrittenBack(judgement_path, rs))
                 /\ overridden' =
                        IF Matches(rs, product_id)
                        THEN overridden \cup {judgement_path}
                        ELSE overridden
    /\ UNCHANGED <<dirs, cleared>>
    /\ NoRace

(***************************************************************************)
(* POST /clear                                                             *)
(***************************************************************************)
clear_all(uuid_str) ==
    LET uuid_dir == JoinPath(DATA_DIR, uuid_str) IN
    /\ IF MissingUuid(uuid_str)
       THEN /\ resp' = PostError("clear", 400, "Missing uuid")
            /\ UNCHANGED <<dirs, files, cleared, overridden>>
       ELSE /\ IF Exists(uuid_dir)
               THEN /\ dirs' = { d \in dirs : ~IsPrefix(uuid_dir, d) }
                    /\ files' = RemoveTree(files, uuid_dir)
               ELSE UNCHANGED <<dirs, files>>
            /\ resp' = PostOk("clear", {}, {})
            /\ cleared' = cleared \cup { <<uuid_str, m>> : m \in ModelNameSet }
            /\ overridden' = { p \in overridden : ~IsPrefix(uuid_dir, p) }
    /\ NoRace

(***************************************************************************)
(* The service, one request at a time, from an empty data directory        *)
(***************************************************************************)
Procs == {1, 2}

\* the requests the model sends
ReqUuids == { <<>>, <<"s1">> }

ReqModels == { "", "qwen_CoT_video_image_info", "gpt" }

ReqDaysBack == { -1, 0, 1 }

ReqProductIds == { "", "P0001" }

ReqLabels == { "", "No", "Maybe" }

NoRequest == [op |-> "none"]

Init ==
    /\ dirs = {DATA_DIR}
    /\ files = [p \in {} |-> <<>>]
    /\ resp = Response("none", 0, [ok |-> TRUE], {}, {})
    /\ cleared = {}
    /\ overridden = {}
    /\ pc = [p \in Procs |-> "idle"]
    /\ req = [p \in Procs |-> NoRequest]
    /\ rows = [p \in Procs |-> <<>>]
    /\ initial = <<>>

Next ==
    \/ \E u \in ReqUuids, d \in ReqDaysBack : pull_data(u, d)
    \/ \E u \in ReqUuids, m \in ReqModels : make_video_description(u, m)
    \/ \E u \in ReqUuids, m \in ReqModels : make_product_info(u, m)
    \/ \E u \in ReqUuids, m \in ReqModels : judge(u, m)
    \/ \E u \in ReqUuids, m \in ReqModels : get_status(u, m)
    \/ \E u \in ReqUuids, m \in ReqModels : get_results(u, m)
    \/ \E u \in ReqUuids, m \in ReqModels, p \in ReqProductIds, l \in ReqLabels :
            override_label(u, m, p, l)
    \/ \E u \in ReqUuids : clear_all(u)

Spec == Init /\ [][Next]_vars

(***************************************************************************)
(* The same service when uuid strings that name one directory are sent     *)
(***************************************************************************)
\* "s1" and "./s1"
AliasUuids == { <<"s1">>, <<".", "s1">> }

AliasModels == { "qwen_CoT_video_image_info" }

NextAlias ==
    \/ \E u \in AliasUuids : pull_data(u, 1)
    \/ \E u \in AliasUuids, m \in AliasModels : make_video_description(u, m)
    \/ \E u \in AliasUuids, m \in AliasModels : make_product_info(u, m)
    \/ \E u \in AliasUuids, m \in AliasModels : judge(u, m)
    \/ \E u \in AliasUuids, m \in AliasModels : get_status(u, m)
    \/ \E u \in AliasUuids : clear_all(u)

SpecAlias == Init /\ [][NextAlias]_vars

(***************************************************************************)
(* /results and /override_label over tables found on disk at start         *)
(***************************************************************************)
TablesUuid == <<"s1">>

TablesModel == "qwen_CoT_video_image_info"

\* all sequences over S of length at most n
SeqsUpTo(S, n) == UNION { [1..k -> S] : k \in 0..n }

\* a judgement line on disk: product i, any label
DiskJudgementRow(i, label) ==
    << ProductId(i), "Sample Product " \o ToString(i), "Books",
       "http://example.com/video" \o ToString(i) \o ".mp4",
       "http://example.com/thumb" \o ToString(i) \o ".jpg",
       "http://example.com/gt" \o ToString(i) \o ".jpg",
       label, "judged " \o label >>

DiskJudgementRows ==
    { DiskJudgementRow(i, l) : i \in {1, 2}, l \in {"Yes", "Maybe"} }

\* the judgement files on disk at start: the empty file, and a header followed
\* by at most MaxRows lines, product ids and labels repeating freely
DiskJudgementCsvs ==
    {<<>>} \cup { <<JudgementHeader>> \o t : t \in SeqsUpTo(DiskJudgementRows, MaxRows) }

\* the video_description files on disk at start: product 1 twice, product 3
DiskVideoDescriptionCsvs ==
    { <<VideoDescriptionHeader>> \o t :
        t \in { <<>>,
                << <<ProductId(1), "first", "k2", "k3">> >>,
                << <<ProductId(1), "first", "k2", "k3">>,
                   <<ProductId(1), "second", "k2", "k3">> >>,
                << <<ProductId(1), "second", "k2", "k3">>,
                   <<ProductId(1), "first", "k2", "k3">> >>,
                << <<ProductId(3), "third", "k2", "k3">>,
                   <<ProductId(1), "first", "k2", "k3">> >> } }

\* the product_info files on disk at start: products 2 and 3
DiskProductInfoCsvs ==
    { <<ProductInfoHeader>> \o t :
        t \in { <<>>,
                << <<ProductId(2), "BrandA", "$30", "Model-2-XL", "Books">> >>,
                << <<ProductId(2), "BrandA", "$30", "Model-2-XL", "Books">>,
                   <<ProductId(3), "BrandB", "$40", "Model-3-XL", "Sports">> >> } }

InitTables ==
    /\ dirs = {DATA_DIR} \cup WithParents(get_model_dir(TablesUuid, TablesModel))
    /\ \E vd \in DiskVideoDescriptionCsvs, pi \in DiskProductInfoCsvs,
          jd \in DiskJudgementCsvs :
            files = [p \in { get_csv_path(TablesUuid, TablesModel, t) : t \in CsvTypes }
                        |-> IF p = get_csv_path(TablesUuid, TablesModel, "video_description")
                            THEN vd
                            ELSE IF p = get_csv_path(TablesUuid, TablesModel, "product_info")
                            THEN pi
                            ELSE jd]
    /\ resp = Response("none", 0, [ok |-> TRUE], {}, {})
    /\ cleared = {}
    /\ overridden = {}
    /\ pc = [p \in Procs |-> "idle"]
    /\ req = [p \in Procs |-> NoRequest]
    /\ rows = [p \in Procs |-> <<>>]
    /\ initial = <<>>

TablesProductIds == { "P0001", "P0002", "P9999" }

TablesLabels == { "No", "N/A" }

NextTables ==
    \/ get_results(TablesUuid, TablesModel)
    \/ \E p \in TablesProductIds, l \in TablesLabels :
            override_label(TablesUuid, TablesModel, p, l)

SpecTables == InitTables /\ [][NextTables]_vars

(***************************************************************************)
(* Generation and /override_label on one pair, from an empty data          *)
(* directory: tables are generated, overridden and generated again         *)
(***************************************************************************)
NextRegen ==
    \/ make_video_description(TablesUuid, TablesModel)
    \/ make_product_info(TablesUuid, TablesModel)
    \/ judge(TablesUuid, TablesModel)
    \/ \E p \in TablesProductIds, l \in TablesLabels :
            override_label(TablesUuid, TablesModel, p, l)

SpecRegen == Init /\ [][NextRegen]_vars

(***************************************************************************)
(* Two requests on one judgement table served at the same time             *)
(*                                                                         *)
(* A handler is cut at its file operations: exists(), the read of the      *)
(* whole file, open(path, 'w') (which empties the file) and the close that *)
(* flushes what was written.  Both requests passed validation.             *)
(***************************************************************************)
RaceUuid == <<"s1">>

RaceModel == "qwen_CoT_video_image_info"

RacePath == get_csv_path(RaceUuid, RaceModel, "judgement")

\* a flush over bytes the other writer flushed after this writer's open: the
\* content written, followed by the other content's bytes beyond its length
Overlaid(content) == Append(content, <<"(bytes of the other writer)">>)

\* what the file can hold after the flush of `content`
Flushed(fm, path, content) ==
    IF path \in DOMAIN fm /\ fm[path] # <<>>
    THEN {content, Overlaid(content)}
    ELSE {content}

Finish(p, code) ==
    /\ pc' = [pc EXCEPT ![p] = "done"]
    /\ req' = [req EXCEPT ![p].code = code]

Goto(p, step) ==
    /\ pc' = [pc EXCEPT ![p] = step]
    /\ UNCHANGED req

\* if not judgement_path.exists()
OverrideCheck(p) ==
    /\ pc[p] = "check"
    /\ IF Exists(RacePath) THEN Goto(p, "read") ELSE Finish(p, 400)
    /\ UNCHANGED <<dirs, files, resp, cleared, overridden, rows, initial>>

\* with open(judgement_path, 'r') ... rows.append(row); a file that cannot be
\* opened or a row without product_id is answered with 500
OverrideRead(p) ==
    /\ pc[p] = "read"
    /\ IF /\ RacePath \in DOMAIN files
          /\ \A k \in 1..Len(DictReader(files[RacePath])) :
                HasKey(DictReader(files[RacePath])[k], "product_id")
       THEN /\ rows' = [rows EXCEPT ![p] =
                    Relabel(DictReader(files[RacePath]), req[p].product_id,
                            req[p].new_label)]
            /\ Goto(p, "open")
       ELSE /\ Finish(p, 500)
            /\ UNCHANGED rows
    /\ UNCHANGED <<dirs, files, resp, cleared, overridden, initial>>

\* if rows: open(judgement_path, 'w')
OverrideOpen(p) ==
    /\ pc[p] = "open"
    /\ IF rows[p] # <<>>
       THEN /\ files' = WriteFile(files, RacePath, <<>>)
            /\ Goto(p, "close")
       ELSE /\ Finish(p, 200)
            /\ UNCHANGED files
    /\ UNCHANGED <<dirs, resp, cleared, overridden, rows, initial>>

\* writer.writeheader(); writer.writerows(rows); the end of the with block
OverrideClose(p) ==
    /\ pc[p] = "close"
    /\ \E c \in Flushed(files, RacePath, DictWriter(Keys(rows[p][1]), rows[p])) :
            files' = WriteFile(files, RacePath, c)
    /\ Finish(p, 200)
    /\ UNCHANGED <<dirs, resp, cleared, overridden, rows, initial>>

\* create_sample_csv: filepath.parent.mkdir(...); open(filepath, 'w')
JudgeOpen(p) ==
    /\ pc[p] = "judge_open"
    /\ dirs' = dirs \cup WithParents(Parent(RacePath))
    /\ files' = WriteFile(files, RacePath, <<>>)
    /\ Goto(p, "judge_close")
    /\ UNCHANGED <<resp, cleared, overridden, rows, initial>>

\* create_sample_csv: the rows written, with the labels req[p].draw stands for,
\* and the end of the with block
JudgeClose(p) ==
    /\ pc[p] = "judge_close"
    /\ \E c \in Flushed(files, RacePath, SampleCsv("judgement", req[p].draw)) :
            files' = WriteFile(files, RacePath, c)
    /\ Finish(p, 200)
    /\ UNCHANGED <<dirs, resp, cleared, overridden, rows, initial>>

RaceLabels == { "Yes", "No" }

OverrideRequest(product_id, new_label) ==
    [op |-> "override_label", product_id |-> product_id, new_label |-> new_label,
     draw |-> [k \in 1..MaxDraws |-> 1], code |-> 0]

JudgeRequest(draw) ==
    [op |-> "judge", product_id |-> "", new_label |-> "", draw |-> draw, code |-> 0]

StartOf(r) == IF r.op = "judge" THEN "judge_open" ELSE "check"

\* request 1 overrides P0001; request 2 regenerates the table or overrides P0002
InitRace ==
    /\ dirs = {DATA_DIR} \cup WithParents(Parent(RacePath))
    /\ \E draw \in RandomDraws :
            /\ files = [p \in {RacePath} |-> SampleCsv("judgement", draw)]
            /\ initial = SampleCsv("judgement", draw)
    /\ \E l1 \in RaceLabels :
       \E r2 \in { JudgeRequest(d) : d \in RandomDraws }
                    \cup { OverrideRequest("P0002", l) : l \in RaceLabels } :
            req = [p \in Procs |-> IF p = 1 THEN OverrideRequest("P0001", l1) ELSE r2]
    /\ pc = [p \in Procs |-> StartOf(req[p])]
    /\ rows = [p \in Procs |-> <<>>]
    /\ resp = Response("none", 0, [ok |-> TRUE], {}, {})
    /\ cleared = {}
    /\ overridden = {}

NextRace ==
    \E p \in Procs :
        \/ OverrideCheck(p)
        \/ OverrideRead(p)
        \/ OverrideOpen(p)
        \/ OverrideClose(p)
        \/ JudgeOpen(p)
        \/ JudgeClose(p)

SpecRace == InitRace /\ [][NextRace]_vars

(***************************************************************************)
(* Properties of /results and /override_label (under SpecTables)           *)
(***************************************************************************)
TablesPath(csv_type) ==
    <<"data", "s1", "qwen_CoT_video_image_info", csv_type \o ".csv">>

\* the data lines of a CSV file
DataLines(csv) == IF csv = <<>> THEN <<>> ELSE Tail(csv)

\* the columns of a side-table line, product_id left out, by column name
SideFields(csv, line) ==
    [c \in { csv[1][i] : i \in 2..Len(csv[1]) } |->
        line[CHOOSE i \in 2..Len(csv[1]) : csv[1][i] = c]]

\* the entry a side table holds for a product id: that of its last line with
\* the id, the empty mapping when no line has it
EntryFor(csv, product_id) ==
    LET lines == DataLines(csv)
        hits == { k \in 1..Len(lines) : lines[k][1] = product_id }
    IN  IF hits = {} THEN [c \in {} |-> c]
        ELSE SideFields(csv, lines[CHOOSE k \in hits : \A j \in hits : j <= k])

ResultsServed == resp.op = "results" /\ resp.code = 200

\* C1: a served /results holds one item per judgement line, in the order of the
\* judgement file; item k carries the product_id of line k, the
\* video_description entry of that id (the empty mapping when the table has
\* none) and the product_info entry of that id (likewise); so a side-table line
\* whose id is not in the judgement table yields no item.
C1_ItemsFollowJudgementRows ==
    ResultsServed =>
        LET jd == DataLines(files[TablesPath("judgement")])
            items == resp.body.items
        IN  /\ Len(items) = Len(jd)
            /\ \A k \in 1..Len(jd) :
                /\ items[k].product_id = jd[k][1]
                /\ items[k].video_description =
                        EntryFor(files[TablesPath("video_description")], jd[k][1])
                /\ items[k].product_info =
                        EntryFor(files[TablesPath("product_info")], jd[k][1])

\* judgement rows [P0002, P0001]; video_description has P0003 and P0001,
\* product_info has P0002 only: the first item has no video_description, the
\* second no product_info, and P0003 gives no item
C1_Witness ==
    /\ ResultsServed
    /\ Len(resp.body.items) = 2
    /\ resp.body.items[1].product_id = "P0002"
    /\ resp.body.items[2].product_id = "P0001"
    /\ DOMAIN resp.body.items[1].video_description = {}
    /\ DOMAIN resp.body.items[1].product_info = {"brand", "price", "spec", "category"}
    /\ resp.body.items[1].product_info.brand = "BrandA"
    /\ DOMAIN resp.body.items[2].video_description =
            {"description_key1", "description_key2", "description_key3"}
    /\ resp.body.items[2].video_description.description_key1 = "first"
    /\ DOMAIN resp.body.items[2].product_info = {}
    /\ \E k \in 2..Len(files[TablesPath("video_description")]) :
            files[TablesPath("video_description")][k][1] = "P0003"

\* the judgement lines whose label is the given one
LinesLabelled(jd, label) == { k \in 1..Len(jd) : jd[k][7] = label }

\* C2: the counts of a served /results have exactly the keys Yes, N/A and No,
\* each the number of judgement lines with that label; a line with another
\* label adds to no count and is still an item, so the counts sum to the number
\* of items less the number of lines with an unknown label.
C2_CountsPerLabel ==
    ResultsServed =>
        LET jd == DataLines(files[TablesPath("judgement")])
            counts == resp.body.counts
            unknown == { k \in 1..Len(jd) : jd[k][7] \notin {"Yes", "N/A", "No"} }
        IN  /\ DOMAIN counts = {"Yes", "N/A", "No"}
            /\ \A l \in {"Yes", "N/A", "No"} :
                    counts[l] = Cardinality(LinesLabelled(jd, l))
            /\ counts["Yes"] + counts["N/A"] + counts["No"]
                    = Len(resp.body.items) - Cardinality(unknown)

\* a line labelled Maybe beside a counted one
C2_Witness ==
    /\ ResultsServed
    /\ Len(resp.body.items) = 2
    /\ resp.body.items[1].label = "Maybe"
    /\ resp.body.counts["Yes"] + resp.body.counts["N/A"] + resp.body.counts["No"] = 1

\* the judgement file with the label of every line of the product id replaced
RelabelledLines(csv, product_id, new_label) ==
    [k \in 1..Len(csv) |->
        IF k > 1 /\ csv[k][1] = product_id
        THEN [csv[k] EXCEPT ![7] = new_label]
        ELSE csv[k]]

\* C4: a successful /override_label sets the label of every line with the
\* product id (all of them when the id repeats) and nothing else: the number and
\* order of the lines, their other fields, the other lines, the other files and
\* the directories are as before; and a served /results carries the labels of
\* the file as it then is, with the counts of those labels.
C4_OverrideChangesOnlyMatchingLabels ==
    [][ /\ \A p \in TablesProductIds, l \in TablesLabels :
            ( /\ resp'.op = "override_label" /\ resp'.code = 200
              /\ override_label(TablesUuid, TablesModel, p, l) ) =>
                /\ dirs' = dirs
                /\ DOMAIN files' = DOMAIN files
                /\ \A q \in DOMAIN files \ {TablesPath("judgement")} :
                        files'[q] = files[q]
                /\ files'[TablesPath("judgement")] =
                        RelabelledLines(files[TablesPath("judgement")], p, l)
        /\ ( /\ resp'.op = "results" /\ resp'.code = 200
             /\ get_results(TablesUuid, TablesModel) ) =>
                LET jd == DataLines(files[TablesPath("judgement")]) IN
                /\ \A k \in 1..Len(jd) : resp'.body.items[k].label = jd[k][7]
                /\ \A l \in {"Yes", "N/A", "No"} :
                        resp'.body.counts[l] = Cardinality(LinesLabelled(jd, l))
      ]_vars

\* /results after an override of P0001 to No on a table with two lines of
\* P0001, first labelled Yes and Maybe
C4_Witness ==
    /\ ResultsServed
    /\ TablesPath("judgement") \in overridden
    /\ Len(resp.body.items) = 2
    /\ \A k \in 1..2 :
            /\ resp.body.items[k].product_id = "P0001"
            /\ resp.body.items[k].label = "No"
    /\ resp.body.items[1].reason = "judged Yes"
    /\ resp.body.items[2].reason = "judged Maybe"
    /\ resp.body.counts["No"] = 2

\* C5: /override_label with a valid model and label on a judgement table that
\* exists, for a product id no line has, answers {ok: true} and leaves every
\* file as it was; when the table has no lines the file is not opened for
\* writing.
C5_OverrideOfAbsentIdChangesNothing ==
    [][ \A p \in TablesProductIds, l \in TablesLabels :
            LET jd == DataLines(files[TablesPath("judgement")]) IN
            ( /\ resp'.op = "override_label"
              /\ \A k \in 1..Len(jd) : jd[k][1] # p
              /\ override_label(TablesUuid, TablesModel, p, l) ) =>
                /\ resp'.code = 200
                /\ resp'.body = [ok |-> TRUE]
                /\ files' = files
                /\ dirs' = dirs
                /\ (jd = <<>> => resp'.wrote = {}) ]_vars

\* an override that matched nothing on a table with lines
C5_Witness ==
    /\ resp.op = "override_label"
    /\ resp.code = 200
    /\ overridden = {}
    /\ resp.wrote = {TablesPath("judgement")}
    /\ Len(files[TablesPath("judgement")]) = 3

(***************************************************************************)
(* Properties of the validation (under Spec)                               *)
(***************************************************************************)
\* the models of the requests that are in MODEL_NAMES, and the uuids given
GoodModels == ReqModels \cap ModelNameSet

GivenUuids == ReqUuids \ {<<>>}

\* C3: for a given uuid and a valid model, when at least one of the three
\* tables does not exist, /results answers 400 with an error body only (no
\* counts, no items), opens no table and leaves directories and files as they
\* were, whichever table is the missing one.
C3_MissingTableIsRejected ==
    [][ \A u \in GivenUuids, m \in GoodModels :
            ( /\ resp'.op = "results"
              /\ \E t \in CsvTypes : ~Exists(get_csv_path(u, m, t))
              /\ get_results(u, m) ) =>
                /\ resp'.code = 400
                /\ DOMAIN resp'.body = {"error"}
                /\ resp'.reads = {}
                /\ dirs' = dirs
                /\ files' = files ]_vars

\* /results refused while product_info alone is missing
C3_Witness ==
    /\ resp.op = "results"
    /\ resp.code = 400
    /\ resp.body.error = "Not all required CSV files exist"
    /\ \E u \in GivenUuids, m \in GoodModels :
            /\ get_csv_path(u, m, "video_description") \in DOMAIN files
            /\ get_csv_path(u, m, "judgement") \in DOMAIN files
            /\ get_csv_path(u, m, "product_info") \notin DOMAIN files

\* C7: on each of the six endpoints that take a model, a request whose model is
\* not in MODEL_NAMES is answered with 400, whatever its other fields, and no
\* directory or file is created, changed or removed.
C7_InvalidModelIsRejected ==
    [][ \A u \in ReqUuids, m \in ReqModels \ ModelNameSet :
            ( \/ resp'.op = "make_video_description" /\ make_video_description(u, m)
              \/ resp'.op = "make_product_info" /\ make_product_info(u, m)
              \/ resp'.op = "judge" /\ judge(u, m)
              \/ resp'.op = "status" /\ get_status(u, m)
              \/ resp'.op = "results" /\ get_results(u, m)
              \/ /\ resp'.op = "override_label"
                 /\ \E p \in ReqProductIds, l \in ReqLabels :
                        override_label(u, m, p, l) ) =>
                /\ resp'.code = 400
                /\ dirs' = dirs
                /\ files' = files ]_vars

\* a request with an unknown model refused while tables exist
C7_Witness ==
    /\ resp.op \in {"make_video_description", "make_product_info", "judge",
                    "override_label"}
    /\ resp.code = 400
    /\ resp.body.error = "Invalid model name"
    /\ DOMAIN files # {}

(***************************************************************************)
(* Properties of regeneration (under SpecRegen)                            *)
(***************************************************************************)
\* the product ids of a generated table, and the reason generated for each
\* label on each line
FreshIds == [i \in 1..num_items |-> "P" \o Pad4(i)]

FreshReasons == [l \in {"Yes", "N/A", "No"} |-> [i \in 1..num_items |-> Reason(l, i)]]

\* the table is one a generation writes: num_items lines after the header, the
\* product ids P0001.. in order, and in a judgement table every label one of
\* labels with the reason generated for that label and line
FreshTable(csv_type, csv) ==
    LET t == csv IN
    /\ Len(t) = num_items + 1
    /\ t[1] = CASE csv_type = "video_description" -> VideoDescriptionHeader
                [] csv_type = "product_info" -> ProductInfoHeader
                [] csv_type = "judgement" -> JudgementHeader
    /\ \A i \in 1..num_items : t[i + 1][1] = FreshIds[i]
    /\ t[2][1] = "P0001"
    /\ t[51][1] = "P0050"
    /\ csv_type = "judgement" =>
            \A i \in 1..num_items :
                /\ t[i + 1][7] \in {"Yes", "N/A", "No"}
                /\ t[i + 1][8] = FreshReasons[t[i + 1][7]][i]

\* C8: a generation request for a uuid and a valid model whose table exists is
\* answered with success and leaves in its place a freshly generated table of
\* 50 lines, P0001 to P0050 in order; for a judgement table the labels and
\* reasons are those of the new generation, whatever was overridden before.
C8_RegenerationReplacesTable ==
    [][ /\ ( /\ TablesPath("video_description") \in DOMAIN files
             /\ make_video_description(TablesUuid, TablesModel) ) =>
                /\ resp'.code = 200
                /\ FreshTable("video_description",
                              files'[TablesPath("video_description")])
        /\ ( /\ TablesPath("product_info") \in DOMAIN files
             /\ make_product_info(TablesUuid, TablesModel) ) =>
                /\ resp'.code = 200
                /\ FreshTable("product_info", files'[TablesPath("product_info")])
        /\ ( /\ TablesPath("judgement") \in DOMAIN files
             /\ judge(TablesUuid, TablesModel) ) =>
                /\ resp'.code = 200
                /\ FreshTable("judgement", files'[TablesPath("judgement")]) ]_vars

\* /judge answered on a table that had lines overridden to No or N/A: every
\* line of the table is labelled Yes, by the new generation
C8_Witness ==
    /\ resp.op = "judge"
    /\ resp.code = 200
    /\ TablesPath("judgement") \in overridden
    /\ TablesPath("judgement") \in DOMAIN files
    /\ \A i \in 2..Len(files[TablesPath("judgement")]) :
            files[TablesPath("judgement")][i][7] = "Yes"

(***************************************************************************)
(* Properties of /clear and of the separation of pairs (under SpecAlias)   *)
(***************************************************************************)
AllPending ==
    [video_description_csv |-> "pending", product_info_csv |-> "pending",
     judgement_csv |-> "pending"]

\* C6: once /clear has been served for a uuid, /status for that uuid and each
\* of the 12 models reports the three tables pending for as long as no
\* generation request names that uuid and model; and /clear for a uuid whose
\* directory does not exist answers success and changes no directory or file.
C6_ClearedStaysPending ==
    [][ /\ \A c \in cleared' : StatusBody(c[1], c[2])' = AllPending
        /\ \A u \in AliasUuids :
                ( /\ resp'.op = "clear"
                  /\ ~Exists(JoinPath(DATA_DIR, u))
                  /\ clear_all(u) ) =>
                    /\ resp'.code = 200
                    /\ dirs' = dirs
                    /\ files' = files ]_vars

\* the existence and the content of the three tables of a pair
TablesOf(fm, uuid_str, model) ==
    [t \in CsvTypes |->
        IF get_csv_path(uuid_str, model, t) \in DOMAIN fm
        THEN <<fm[get_csv_path(uuid_str, model, t)]>>
        ELSE <<>>]

\* C10: a generation or status request for (s, m) leaves the tables of every
\* other pair (s', m') as they were, and pull_data(s) and clear(s) leave the
\* tables of every other uuid s' as they were, for all the uuid strings the
\* endpoints accept.
C10_PairsAreIsolated ==
    [][ \A u \in AliasUuids :
            /\ \A m \in AliasModels :
                ( \/ make_video_description(u, m)
                  \/ make_product_info(u, m)
                  \/ judge(u, m)
                  \/ get_status(u, m) ) =>
                    \A u2 \in AliasUuids, m2 \in AliasModels :
                        <<u2, m2>> # <<u, m>> =>
                            TablesOf(files', u2, m2) = TablesOf(files, u2, m2)
            /\ (pull_data(u, 1) \/ clear_all(u)) =>
                    \A u2 \in AliasUuids \ {u}, m2 \in AliasModels :
                        TablesOf(files', u2, m2) = TablesOf(files, u2, m2) ]_vars

(***************************************************************************)
(* Properties of two requests served at the same time (under SpecRace)     *)
(***************************************************************************)
BothDone == \A p \in Procs : pc[p] = "done"

\* the table request 1 alone leaves: the starting table, P0001 relabelled
FirstOnly == RelabelledLines(initial, "P0001", req[1].new_label)

\* the tables the two requests leave when one is served after the other
SerialOutcomes ==
    IF req[2].op = "judge"
    THEN { SampleCsv("judgement", req[2].draw),
           RelabelledLines(SampleCsv("judgement", req[2].draw), "P0001",
                           req[1].new_label) }
    ELSE { RelabelledLines(FirstOnly, "P0002", req[2].new_label) }

\* the tables that hold the effect of one request only, written from the
\* snapshot it read before the other request wrote
LostUpdateOutcomes ==
    IF req[2].op = "judge"
    THEN { FirstOnly }
    ELSE { FirstOnly, RelabelledLines(initial, "P0002", req[2].new_label) }

\* C9: with no lock between the read of the judgement table and its rewrite,
\* two requests on one table (an override with a regeneration, or two overrides
\* of different product ids) both answer success and leave either a table that
\* one of the two serial orders leaves, or a table that holds the effect of one
\* request only (the snapshot of an override written over what the other
\* request wrote), or one of these followed by bytes of the other writer; the
\* lost update is among the tables reached.
C9_RaceOutcomes ==
    BothDone =>
        /\ \A p \in Procs : req[p].code = 200
        /\ RacePath \in DOMAIN files
        /\ \E c \in SerialOutcomes \cup LostUpdateOutcomes :
                files[RacePath] \in {c, Overlaid(c)}

\* the override's snapshot replaced the regenerated table: the final table is
\* the starting one with P0001 relabelled, which neither serial order leaves
C9_Witness ==
    /\ BothDone
    /\ \A p \in Procs : req[p].code = 200
    /\ req[2].op = "judge"
    /\ files[RacePath] = FirstOnly
    /\ files[RacePath] \notin SerialOutcomes
    /\ files[RacePath][2][7] = req[1].new_label
    /\ \E i \in 3..Len(files[RacePath]) :
            files[RacePath][i][7] # SampleCsv("judgement", req[2].draw)[i][7]
====
